---- MODULE Spec2Model ----
(***************************************************************************)
(* Model of the request-retry-and-authentication state machine of         *)
(* HttpClient (src/src/httpClient/HttpClient.ts), of the ApiResponse      *)
(* wrapper it produces and of the IAuthClient contract it depends on.     *)
(*                                                                         *)
(* One logical call (_invoke) runs as a chain of continuations separated   *)
(* by the awaits of _invokeWithRetries: getAuthHeader, client.request,     *)
(* refreshToken and the retry timer.  Each continuation is one action.     *)
(***************************************************************************)
EXTENDS Integers, Sequences, FiniteSets, TLC

\* ------------------------------------------------------------------ bounds
\* Largest maxAttempts option the model configures a client with.
MaxAttemptsBound == 4

\* Most token fetches one auth strategy instance starts in the model.
MaxFetches == 2

\* Cap of the calls counter; above every maxAttempts the model configures.
CallCap == MaxAttemptsBound + 1

\* ------------------------------------------------------- program constants
DefaultMaxAttempts == 3
DefaultRetryDelay == 1000
NoStatus == -1

\* --------------------------------------------------------------- encodings
\* An optional value: <<>> is undefined, <<x>> is the value x.
Undefined == <<>>
Some(x) == <<x>>
IsDefined(o) == o # Undefined
TheValue(o) == o[1]

\* Status codes the remote endpoint (or the HTTP stack) can hand to axios.
Statuses == {199, 200, 299, 300, 400, 401, 403, 404, 499, 500, 503}

\* RetryStrategy enum.
RetryStrategies == {"constant", "linear", "exponential"}

\* retryDelay options the model configures a client with.
RetryDelays == {DefaultRetryDelay, 5000}

\* Tokens an auth strategy can hold; "" is a falsy (empty) token.
Tokens == {"", "tokA", "tokB"}

\* Header maps: functions from header names to values.
EmptyHeaders == [k \in {} |-> ""]
CallerHeaders == {EmptyHeaders, [Accept |-> "json"], [Authorization |-> "caller"]}

\* Inbound processor chains the model registers on a client.
ProcessorChains == {<<>>, <<"isoDate">>, <<"isoDate", "custom">>, <<"custom", "isoDate">>}

\* The auth strategy classes that cache a token promise: the
\* DelegateBearerAuthClient, its copy without the catch, and the OAuthClient.
Kinds == {"delegate", "delegateNoCatch", "oauth"}

\* Concurrent users of one auth strategy instance (logical calls of the
\* HttpClients that share it, or application code).
Callers == {"c1", "c2", "c3"}

\* Statuses the token endpoint answers the OAuthClient with.
TokenEndpointStatuses == {200, 500}

VARIABLES
    maxAttempts,     \* options.maxAttempts
    retryDelay,      \* options.retryDelay
    retryStrategy,   \* options.retryStrategy
    authClient,      \* TRUE iff options.authClient is set
    authToken,       \* the token the auth strategy currently holds
    pc,              \* position of the logical call
    attemptCounter,  \* attemptCounter parameter of the current frame
    headers,         \* headers parameter/local of the current frame
    origHeaders,     \* headers the caller passed to _invoke
    calls,           \* client.request calls issued in this logical call
    headerResults,   \* outcomes of this logical call's getAuthHeader calls
    refreshCalls,    \* refreshToken calls made in this logical call
    refreshThrew,    \* TRUE iff a refreshToken call of this logical call rejected
    delays,          \* timers started in this logical call, in order
    received,        \* outcomes of the physical calls, in order
    sent,            \* requests handed to client.request, in order
    result,          \* the ApiResponse the logical call resolved with
    \* ---- parseResult (the typed variants getAs, postAs, ...)
    inboundProcessors, \* client.inboundProcessors, in registration order
    ppc,             \* position of parseResult
    transformType,   \* TRUE iff a transformType was passed
    data,            \* local data of parseResult
    inboundRuns,     \* inbound processJson calls made, in order
    typedResult,     \* the ApiResult parseResult resolved with
    \* ---- one auth strategy instance and its concurrent callers
    kind,            \* class of the instance
    token,           \* this.token: 0 is undefined, n the promise of fetch n
    fetches,         \* the token fetches started, in order
    cpc,             \* position of each caller's call
    waitOn,          \* the promise each caller awaits
    joined,          \* the fetch each caller's call started or found cached
    outcome,         \* how each caller's last call ended
    \* ---- the request body of the logical call
    outboundProcessors, \* this.outboundProcessors, in registration order
    body,            \* the caller's data object as it is now
    origBody,        \* the caller's data as it was passed to the call
    \* ---- a helper function applied to an input
    fn,              \* the function that was applied
    arg,             \* its input
    out              \* what it returned

callVars == <<maxAttempts, retryDelay, retryStrategy, authClient, authToken, pc,
              attemptCounter, headers, origHeaders, calls, headerResults,
              refreshCalls, refreshThrew, delays, received, sent, result>>

parseVars == <<inboundProcessors, ppc, transformType, data, inboundRuns,
               typedResult>>

authVars == <<kind, token, fetches, cpc, waitOn, joined, outcome>>

bodyVars == <<outboundProcessors, body, origBody>>

funcVars == <<fn, arg, out>>

vars == <<callVars, parseVars, authVars, bodyVars, funcVars>>

options == <<maxAttempts, retryDelay, retryStrategy, authClient>>

\* ------------------------------------------------------------- ApiResponse
\* ApiResponse that counts the attempts from zero
ApiResponseZeroBased(res, error, attempts) ==
    [response |-> res, error |-> error, attempts |-> attempts - 1]

\* new ApiResponse(res, error, attempts)
ApiResponse(res, error, attempts) ==
    [response |-> res, error |-> error, attempts |-> attempts]

\* get status()
Status(r) == IF IsDefined(r.response) THEN TheValue(r.response).status ELSE NoStatus

\* success with the lower bound off by one: 200 is not a success
SuccessAbove200(r) == Status(r) > 200 /\ Status(r) < 300 /\ r.error = Undefined

\* get success()
Success(r) == Status(r) > 199 /\ Status(r) < 300 /\ r.error = Undefined

\* is4xx that forgets to leave out the 401
Is4xxWith401(r) == Status(r) > 399 /\ Status(r) < 500

\* get is4xx()
Is4xx(r) == Status(r) > 399 /\ Status(r) < 500 /\ Status(r) # 401

\* get forbidden(); undefined (no response) is falsy
Forbidden(r) == IsDefined(r.response) /\ TheValue(r.response).status = 403

\* get notFound(); undefined (no response) is falsy
NotFound(r) == IsDefined(r.response) /\ TheValue(r.response).status = 404

\* -------------------------------------------------------------- HttpClient
\* validateStatus of the axios instance: accept all responses
ValidateStatus(status) == status >= 200

\* const success = res.status >= 200 && res.status < 300
StatusSuccess(status) == status >= 200 /\ status < 300

\* IsDone without the attempt limit
IsDoneNoMax(status, attempt) ==
    \/ StatusSuccess(status)
    \/ (status < 500 /\ status # 401)

\* IsDone with the attempt limit off by one
IsDoneOffByOne(status, attempt) ==
    \/ StatusSuccess(status)
    \/ attempt > maxAttempts
    \/ (status < 500 /\ status # 401)

\* IsDone that gives up on 5xx too
IsDoneNoServerRetry(status, attempt) ==
    \/ StatusSuccess(status)
    \/ attempt >= maxAttempts
    \/ status # 401

\* IsDone that retries 4xx
IsDoneRetry4xx(status, attempt) ==
    \/ StatusSuccess(status)
    \/ attempt >= maxAttempts
    \/ status < 400

\* IsDone that retries 3xx
IsDoneRetry3xx(status, attempt) ==
    \/ StatusSuccess(status)
    \/ attempt >= maxAttempts
    \/ (status >= 400 /\ status < 500 /\ status # 401)

\* IsDone that treats a 401 like any other client error
IsDone401Terminal(status, attempt) ==
    \/ StatusSuccess(status)
    \/ attempt >= maxAttempts
    \/ status < 500

\* "we're done" condition of _invokeWithRetries
IsDone(status, attempt) ==
    \/ StatusSuccess(status)
    \/ attempt >= maxAttempts
    \/ (status < 500 /\ status # 401)

\* the refresh branch taken for a 401 at any attempt
IsAny401(status, attempt) ==
    status = 401 /\ authClient

\* the refresh branch taken without checking for an auth strategy
IsInitial401NoAuthCheck(status, attempt) ==
    status = 401 /\ attempt = 1

\* condition of the refresh branch of _invokeWithRetries
IsInitial401(status, attempt) ==
    status = 401 /\ attempt = 1 /\ authClient

\* the delay that doubles with every attempt
CalculateRetryDelayDoubling(attempts) ==
    CASE retryStrategy = "constant" -> retryDelay
      [] retryStrategy = "linear" -> retryDelay * attempts
      [] OTHER -> retryDelay * 2 ^ (attempts - 1)

\* _calculateRetryDelay(attempts)
CalculateRetryDelay(attempts) ==
    CASE retryStrategy = "constant" -> retryDelay
      [] retryStrategy = "linear" -> retryDelay * attempts
      [] OTHER -> retryDelay * (attempts * attempts)

\* {...headers, ...authHeader}
MergeHeaders(h, a) ==
    [k \in (DOMAIN h) \cup (DOMAIN a) |-> IF k \in DOMAIN a THEN a[k] ELSE h[k]]

\* the header object an auth strategy builds from its token (undefined
\* spreads as no header at all)
AuthHeaderOf(tok) ==
    IF tok # "" THEN [Authorization |-> "Bearer " \o tok] ELSE EmptyHeaders

\* ---------------------------------------------------------------- ApiResult
\* new ApiResult(val, res, error, attempts)
ApiResult(val, res, error, attempts) ==
    [value |-> val, response |-> res, error |-> error, attempts |-> attempts]

\* response.response.data: the payload that came with the response
ResponseData(res) == [body |-> res.status]

\* p.processJson(json): the payload after processor p worked on it
ProcessJson(p, json) == [by |-> p, of |-> json]

\* inboundProcessors.forEach((p) => (data = p.processJson(data)))
RECURSIVE RunChain(_, _)
RunChain(chain, json) ==
    IF chain = <<>> THEN json
    ELSE ProcessJson(chain[Len(chain)], RunChain(SubSeq(chain, 1, Len(chain) - 1), json))

\* plainToClass(transformType, data)
PlainToClass(json) == [class |-> json]

\* the failed-response wrapper that copies the payload into value
WrapFailedWithData(response) ==
    ApiResult(IF IsDefined(response.response)
              THEN Some(ResponseData(TheValue(response.response))) ELSE Undefined,
              response.response, response.error, response.attempts)

\* parseResult, !response.success: just wrap the original result
WrapFailed(response) ==
    ApiResult(Undefined, response.response, response.error, response.attempts)

\* parseResult, the final return
WrapValue(response, val) ==
    ApiResult(Some(val), response.response, Undefined, response.attempts)

\* the catch that forgets the error it caught
WrapErrorDropsError(response, e) ==
    ApiResult(Undefined, response.response, Undefined, response.attempts)

\* parseResult, catch (e)
WrapError(response, e) ==
    ApiResult(Undefined, response.response, Some(e), response.attempts)

\* parseResult before it is called
ParseIdle ==
    /\ ppc = "idle"
    /\ transformType = FALSE
    /\ data = Undefined
    /\ inboundRuns = <<>>
    /\ typedResult = Undefined

\* ------------------------------------------------ errors raised on demand
\* the message of an error: the captured error, or the parts
\* statusText, status and serialized body it is built from
Message(failed, error, statusText, status, payload) ==
    [failed |-> failed, error |-> error, statusText |-> statusText,
     status |-> status, data |-> payload]

NoMessage == Message(FALSE, "", "", NoStatus, "")

\* an error value: the captured error itself or a new Error(message)
ErrorValue(captured, error, message) ==
    [captured |-> captured, error |-> error, message |-> message]

NoError == ErrorValue(FALSE, "", NoMessage)

\* reading a property of undefined
TypeError == ErrorValue(FALSE, "TypeError", NoMessage)

\* JSON.stringify(res.data) in the try of getErrorMessage: a payload that
\* cannot be serialized leaves data empty
SerializedData(d) ==
    IF d = "" \/ d = "circular" THEN "" ELSE " - " \o d

\* getErrorMessage()
GetErrorMessage(r) ==
    IF IsDefined(r.error)
    THEN Message(TRUE, TheValue(r.error), "", NoStatus, "")
    ELSE LET res == TheValue(r.response)
         IN Message(FALSE, "",
                    IF res.statusText # "" THEN res.statusText ELSE "n/a",
                    Status(r), SerializedData(res.data))

\* createError()
CreateError(r) ==
    IF IsDefined(r.error) THEN ErrorValue(TRUE, TheValue(r.error), NoMessage)
    ELSE IF ~IsDefined(r.response) THEN TypeError
    ELSE ErrorValue(FALSE, "Error", GetErrorMessage(r))

\* ensureSuccess(): returns, or throws createError()
EnsureSuccess(r) ==
    IF Success(r)
    THEN [threw |-> FALSE, error |-> NoError, value |-> Undefined]
    ELSE [threw |-> TRUE, error |-> CreateError(r), value |-> Undefined]

\* getValueOrThrow without the check
GetValueNoCheck(r) ==
    [threw |-> FALSE, error |-> NoError, value |-> r.value]

\* getValueOrThrow(): this.ensureSuccess(); return this.value
GetValueOrThrow(r) ==
    IF EnsureSuccess(r).threw
    THEN EnsureSuccess(r)
    ELSE [threw |-> FALSE, error |-> NoError, value |-> r.value]

\* ---------------------------------------------------------- request bodies
\* JSON values: a string is the sequence of its chunks, an object the
\* sequence of the values of its keys.
JNull == [type |-> "null", text |-> <<>>, fields |-> <<>>]
JString(chunks) == [type |-> "string", text |-> chunks, fields |-> <<>>]
JNumber(n) == [type |-> "number", text |-> <<n>>, fields |-> <<>>]
JBoolean(b) == [type |-> "boolean", text |-> <<b>>, fields |-> <<>>]
JDate(chunks) == [type |-> "date", text |-> chunks, fields |-> <<>>]
JObject(values) == [type |-> "object", text |-> <<>>, fields |-> values]
JArray(values) == [type |-> "array", text |-> <<>>, fields |-> values]

\* an ISO 8601 timestamp
IsoText == "2019-12-31T23:59:59"

\* the data a caller passes to a call
Bodies ==
    { JNull, JString(<<>>), JNumber("0"), JBoolean("false"),
      JString(<<"abc">>), JNumber("7"),
      JObject(<<JString(<<"abc">>)>>),
      JObject(<<JString(<<IsoText>>), JString(<<"abc">>)>>) }

\* outbound processor chains: IsoDateProcessor and a
\* StringTransformJsonProcessor whose transformer appends to the string
OutboundChains ==
    {<<>>, <<"isoDate">>, <<"suffix">>, <<"isoDate", "suffix">>, <<"suffix", "isoDate">>}

\* if (data): null, "", 0 and false are falsy
Truthy(json) ==
    CASE json.type = "null" -> FALSE
      [] json.type = "string" -> json.text # <<>>
      [] json.type = "number" -> json.text # <<"0">>
      [] json.type = "boolean" -> json.text = <<"true">>
      [] OTHER -> TRUE

\* IsoDateProcessor.iso8601.test(value): the pattern is not anchored
IsIso(chunks) == \E i \in 1..Len(chunks) : chunks[i] = IsoText

\* transformerFunc(value) of processor p; a string left as it is stands for
\* the transformer returning undefined
TransformerFunc(p, v) ==
    CASE p = "isoDate" -> IF IsIso(v.text) THEN JDate(v.text) ELSE v
      [] p = "suffix" -> JString(Append(v.text, "!"))
      [] p = "toNull" -> JNull

\* _isObject(obj): obj === Object(obj) holds for objects and arrays (and
\* for a Date, which has no keys of its own)
IsObject(json) == json.type \in {"object", "array", "date"}

\* StringTransformJsonProcessor.parse(json): what the tree is afterwards.
\* ParseJson is parse(json); ParseValue is the body of the forEach for the
\* value of one key
RECURSIVE ParseJson(_, _), ParseValue(_, _)
ParseJson(p, json) ==
    IF ~IsObject(json) THEN json
    ELSE [json EXCEPT !.fields =
            [i \in 1..Len(json.fields) |-> ParseValue(p, json.fields[i])]]

ParseValue(p, value) ==
    IF value.type = "array"
    THEN [value EXCEPT !.fields =
            [i \in 1..Len(value.fields) |-> ParseJson(p, value.fields[i])]]
    ELSE IF value.type = "string"
         THEN TransformerFunc(p, value)
         ELSE ParseJson(p, value)

\* StringTransformJsonProcessor.processJson: this.parse(json); return json
ProcessOutbound(p, json) == ParseJson(p, json)

\* outboundProcessors.forEach((p) => (processedData = p.processJson(processedData)))
RECURSIVE RunOutbound(_, _)
RunOutbound(chain, json) ==
    IF chain = <<>> THEN json
    ELSE ProcessOutbound(chain[Len(chain)], RunOutbound(SubSeq(chain, 1, Len(chain) - 1), json))

\* the data of the request: let body = null; if (data) { ... body = processedData }
RequestBody(d) ==
    IF Truthy(d) THEN RunOutbound(outboundProcessors, d) ELSE JNull

\* no call has been made: there is no body
BodyIdle ==
    /\ body = JNull
    /\ origBody = JNull

\* no helper function has been applied
FuncIdle ==
    /\ fn = "none"
    /\ arg = <<>>
    /\ out = <<>>

\* ------------------------------------------------- auth strategy instances
NoOutcome == [call |-> "none", result |-> "none", token |-> "", fetch |-> 0]

\* a freshly constructed strategy (token = undefined) nobody has called
AuthIdle ==
    /\ token = 0
    /\ fetches = <<>>
    /\ cpc = [c \in Callers |-> "idle"]
    /\ waitOn = [c \in Callers |-> 0]
    /\ joined = [c \in Callers |-> 0]
    /\ outcome = [c \in Callers |-> NoOutcome]

\* the lazy check that fetches on every call
NeedsFetchAlways(tok) == TRUE

\* if (!this.token)
NeedsFetch(tok) == tok = 0

\* the catch of getAuthHeader that throws the promise away
ClearsOnFailure(k) == k = "delegate"

\* tokenResolver() answers: it resolves with token tok or rejects
ResolverOutcome(ok, tok) ==
    IF ok THEN [state |-> "resolved", value |-> tok]
    ELSE [state |-> "rejected", value |-> ""]

\* refreshTokenImpl: the token endpoint answers with status and access_token
\* (NoStatus: the POST of getToken threw)
RefreshTokenImpl(status, accessToken) ==
    IF status = NoStatus
    THEN [state |-> "rejected", value |-> ""]
    ELSE IF Success(ApiResponse(Some([status |-> status]), Undefined, 0)) /\ accessToken # ""
         THEN [state |-> "resolved", value |-> accessToken]
         ELSE [state |-> "rejected", value |-> ""]

\* const promise = this.tokenResolver() / this.refreshTokenImpl();
\* this.token = promise
StartFetch(by) ==
    /\ Len(fetches) < MaxFetches
    /\ fetches' = Append(fetches, [by |-> by, state |-> "pending", value |-> ""])
    /\ token' = Len(fetches) + 1

\* a caller may start a call when it has none in progress
Resting(c) == cpc[c] \in {"idle", "returned", "threw"}

\* the promise p has settled (awaiting undefined continues at once)
Settled(p) == IF p = 0 THEN TRUE ELSE fetches[p].state # "pending"

\* getAuthHeader() is called: without a cached promise it calls
\* refreshToken and awaits it, otherwise it awaits the cached promise
CallGetAuthHeader(c) ==
    /\ Resting(c)
    /\ IF NeedsFetch(token)
       THEN /\ StartFetch("getAuthHeader")
            /\ cpc' = [cpc EXCEPT ![c] = "awaitRefresh"]
       ELSE /\ cpc' = [cpc EXCEPT ![c] = "awaitToken"]
            /\ UNCHANGED <<token, fetches>>
    /\ waitOn' = [waitOn EXCEPT ![c] = token']
    /\ joined' = [joined EXCEPT ![c] = token']
    /\ outcome' = [outcome EXCEPT ![c] = NoOutcome]
    /\ UNCHANGED <<kind, callVars, parseVars, bodyVars, funcVars>>

\* refreshToken() is called from outside getAuthHeader
CallRefreshToken(c) ==
    /\ Resting(c)
    /\ StartFetch("refreshToken")
    /\ cpc' = [cpc EXCEPT ![c] = "refreshing"]
    /\ waitOn' = [waitOn EXCEPT ![c] = token']
    /\ joined' = [joined EXCEPT ![c] = token']
    /\ outcome' = [outcome EXCEPT ![c] = NoOutcome]
    /\ UNCHANGED <<kind, callVars, parseVars, bodyVars, funcVars>>

\* the fetch f settles as s
Settle(f, s) ==
    /\ f \in 1..Len(fetches)
    /\ fetches[f].state = "pending"
    /\ fetches' = [fetches EXCEPT ![f] = [by |-> fetches[f].by, state |-> s.state, value |-> s.value]]
    /\ UNCHANGED <<kind, token, cpc, waitOn, joined, outcome, callVars, parseVars, bodyVars, funcVars>>

\* the tokenResolver of a DelegateBearerAuthClient answers
ResolverSettles(f, ok, tok) ==
    /\ kind # "oauth"
    /\ ~ok => tok = ""
    /\ Settle(f, ResolverOutcome(ok, tok))

\* the token endpoint answers the OAuthClient, or the POST throws
TokenEndpointAnswers(f, status, accessToken) ==
    /\ kind = "oauth"
    /\ Settle(f, RefreshTokenImpl(status, accessToken))

\* "await promise" of refreshToken continues: refreshToken returns or throws
RefreshSettles(c) ==
    /\ cpc[c] \in {"awaitRefresh", "refreshing"}
    /\ Settled(waitOn[c])
    /\ IF fetches[waitOn[c]].state = "resolved"
       THEN IF cpc[c] = "awaitRefresh"
            THEN /\ cpc' = [cpc EXCEPT ![c] = "readToken"]
                 /\ UNCHANGED outcome
            ELSE /\ cpc' = [cpc EXCEPT ![c] = "returned"]
                 /\ outcome' = [outcome EXCEPT ![c] =
                        [call |-> "refreshToken", result |-> "void", token |-> "", fetch |-> waitOn[c]]]
       ELSE /\ cpc' = [cpc EXCEPT ![c] = "threw"]
            /\ outcome' = [outcome EXCEPT ![c] =
                   [call |-> IF cpc[c] = "awaitRefresh" THEN "getAuthHeader" ELSE "refreshToken",
                    result |-> "error", token |-> "", fetch |-> waitOn[c]]]
    /\ UNCHANGED <<kind, token, fetches, waitOn, joined, callVars, parseVars, bodyVars, funcVars>>

\* getAuthHeader continues after its refreshToken: await this.token
ReadToken(c) ==
    /\ cpc[c] = "readToken"
    /\ cpc' = [cpc EXCEPT ![c] = "awaitToken"]
    /\ waitOn' = [waitOn EXCEPT ![c] = token]
    /\ UNCHANGED <<kind, token, fetches, joined, outcome, callVars, parseVars, bodyVars, funcVars>>

\* "await this.token" of getAuthHeader continues: the header is built, or
\* the rejection is thrown (after the catch, where there is one)
TokenSettles(c) ==
    /\ cpc[c] = "awaitToken"
    /\ Settled(waitOn[c])
    /\ IF waitOn[c] # 0 /\ fetches[waitOn[c]].state = "rejected"
       THEN /\ cpc' = [cpc EXCEPT ![c] = "threw"]
            /\ outcome' = [outcome EXCEPT ![c] =
                   [call |-> "getAuthHeader", result |-> "error", token |-> "", fetch |-> waitOn[c]]]
            /\ token' = IF ClearsOnFailure(kind) THEN 0 ELSE token
       ELSE /\ cpc' = [cpc EXCEPT ![c] = "returned"]
            /\ outcome' = [outcome EXCEPT ![c] =
                   IF waitOn[c] # 0 /\ fetches[waitOn[c]].value # ""
                   THEN [call |-> "getAuthHeader", result |-> "header",
                         token |-> fetches[waitOn[c]].value, fetch |-> waitOn[c]]
                   ELSE [call |-> "getAuthHeader", result |-> "noHeader",
                         token |-> "", fetch |-> waitOn[c]]]
            /\ UNCHANGED token
    /\ UNCHANGED <<kind, fetches, waitOn, joined, callVars, parseVars, bodyVars, funcVars>>

\* a new logical call: no parseResult has run on it
ParseReset ==
    /\ ppc' = "idle"
    /\ transformType' = FALSE
    /\ data' = Undefined
    /\ inboundRuns' = <<>>
    /\ typedResult' = Undefined

\* ------------------------------------------------------------------- Init
\* The client after construction: options merged over the defaults.
Init ==
    /\ maxAttempts \in 1..MaxAttemptsBound
    /\ retryDelay \in RetryDelays
    /\ retryStrategy \in RetryStrategies
    /\ authClient \in BOOLEAN
    /\ authToken = ""
    /\ pc = "idle"
    /\ attemptCounter = 0
    /\ headers = EmptyHeaders
    /\ origHeaders = EmptyHeaders
    /\ calls = 0
    /\ headerResults = <<>>
    /\ refreshCalls = 0
    /\ refreshThrew = FALSE
    /\ delays = <<>>
    /\ received = <<>>
    /\ sent = <<>>
    /\ result = Undefined
    /\ inboundProcessors = <<>>
    /\ ParseIdle
    /\ kind = "delegate"
    /\ AuthIdle
    /\ outboundProcessors = <<>>
    /\ BodyIdle
    /\ FuncIdle

\* ---------------------------------------------------------------- actions
\* _invoke: start a logical call with attemptCounter 1.
Invoke(h, d) ==
    /\ pc \in {"idle", "done"}
    /\ pc' = "begin"
    /\ attemptCounter' = 1
    /\ headers' = h
    /\ origHeaders' = h
    /\ calls' = 0
    /\ headerResults' = <<>>
    /\ refreshCalls' = 0
    /\ refreshThrew' = FALSE
    /\ delays' = <<>>
    /\ received' = <<>>
    /\ sent' = <<>>
    /\ result' = Undefined
    /\ ppc \in {"idle", "done"}
    /\ ParseReset
    /\ body' = d
    /\ origBody' = d
    /\ UNCHANGED <<options, authToken, inboundProcessors, authVars,
                   outboundProcessors, funcVars>>

\* catch that reports the attempt after the failed one
CatchNextAttempt(error) ==
    /\ result' = Some(ApiResponse(Undefined, Some(error), attemptCounter + 1))
    /\ pc' = "done"

\* catch that lets the error escape: the promise of the call rejects
CatchRethrows(error) ==
    /\ result' = result
    /\ pc' = "rejected"

\* catch that swallows the error and starts the attempt again
CatchAndRetry(error) ==
    /\ result' = result
    /\ pc' = "begin"

\* catch that returns a Response with neither response nor error
CatchWithoutError(error) ==
    /\ result' = Some(ApiResponse(Undefined, Undefined, attemptCounter))
    /\ pc' = "done"

\* catch that keeps the HTTP response the frame last received
CatchKeepsResponse(error) ==
    /\ result' = Some(ApiResponse(
                      IF received # <<>> /\ received[Len(received)] # NoStatus
                      THEN Some([status |-> received[Len(received)]])
                      ELSE Undefined,
                      Some(error), attemptCounter))
    /\ pc' = "done"

\* catch (error): return new ApiResponse(undefined, error, attemptCounter)
Catch(error) ==
    /\ result' = Some(ApiResponse(Undefined, Some(error), attemptCounter))
    /\ pc' = "done"

\* await authClient.getAuthHeader() returns the header of token t: the
\* token the strategy holds or, when it holds none, the one it fetches now;
\* headers = {...headers, ...authHeader}
GetAuthHeader(t) ==
    /\ pc = "begin"
    /\ authClient
    /\ authToken # "" => t = authToken
    /\ authToken' = t
    /\ headerResults' = Append(headerResults, [threw |-> FALSE, header |-> AuthHeaderOf(t)])
    /\ headers' = MergeHeaders(headers, AuthHeaderOf(t))
    /\ pc' = "send"
    /\ UNCHANGED <<options, attemptCounter, origHeaders, calls,
                   refreshCalls, refreshThrew, delays, received, sent, result>>
    /\ UNCHANGED <<parseVars, authVars, bodyVars, funcVars>>

\* await authClient.getAuthHeader() rejects
GetAuthHeaderThrows ==
    /\ pc = "begin"
    /\ authClient
    /\ headerResults' = Append(headerResults, [threw |-> TRUE, header |-> EmptyHeaders])
    /\ Catch("AuthHeaderError")
    /\ UNCHANGED <<options, authToken, attemptCounter, headers, origHeaders,
                   calls, refreshCalls, refreshThrew, delays, received, sent>>
    /\ UNCHANGED <<parseVars, authVars, bodyVars, funcVars>>

\* this.client.request(request) is issued
SendRequest ==
    /\ \/ pc = "send"
       \/ pc = "begin" /\ ~authClient
    /\ calls < CallCap
    /\ calls' = calls + 1
    /\ sent' = Append(sent, [headers |-> headers, attempt |-> attemptCounter,
                              data |-> RequestBody(body)])
    /\ body' = IF Truthy(body) THEN RequestBody(body) ELSE body
    /\ pc' = "awaiting"
    /\ UNCHANGED <<options, authToken, attemptCounter, headers, origHeaders,
                   headerResults, refreshCalls, refreshThrew, delays, received, result>>
    /\ UNCHANGED <<parseVars, authVars, outboundProcessors, origBody, funcVars>>

\* the continuation that computes the delay of the attempt to come
ClassifyDelayOfNextAttempt(s) ==
    IF IsDone(s, attemptCounter)
    THEN /\ result' = Some(ApiResponse(Some([status |-> s]), Undefined, attemptCounter))
         /\ pc' = "done"
         /\ UNCHANGED delays
    ELSE IF IsInitial401(s, attemptCounter)
         THEN /\ pc' = "refresh"
              /\ UNCHANGED <<delays, result>>
         ELSE /\ delays' = Append(delays, CalculateRetryDelay(attemptCounter + 1))
              /\ pc' = "delay"
              /\ UNCHANGED result

\* the continuation after client.request resolved with status s
Classify(s) ==
    IF IsDone(s, attemptCounter)
    THEN /\ result' = Some(ApiResponse(Some([status |-> s]), Undefined, attemptCounter))
         /\ pc' = "done"
         /\ UNCHANGED delays
    ELSE IF IsInitial401(s, attemptCounter)
         THEN /\ pc' = "refresh"
              /\ UNCHANGED <<delays, result>>
         ELSE /\ delays' = Append(delays, CalculateRetryDelay(attemptCounter))
              /\ pc' = "delay"
              /\ UNCHANGED result

\* the transport answers with status s
ReceiveResponse(s) ==
    /\ pc = "awaiting"
    /\ received' = Append(received, s)
    /\ IF ValidateStatus(s)
       THEN Classify(s)
       ELSE Catch("StatusRejected") /\ UNCHANGED delays
    /\ UNCHANGED <<options, authToken, attemptCounter, headers, origHeaders,
                   calls, headerResults, refreshCalls, refreshThrew, sent>>
    /\ UNCHANGED <<parseVars, authVars, bodyVars, funcVars>>

\* the transport throws (timeout, DNS failure, connection refused)
RequestThrows ==
    /\ pc = "awaiting"
    /\ received' = Append(received, NoStatus)
    /\ Catch("TransportError")
    /\ UNCHANGED <<options, authToken, attemptCounter, headers, origHeaders,
                   calls, headerResults, refreshCalls, refreshThrew, delays, sent>>
    /\ UNCHANGED <<parseVars, authVars, bodyVars, funcVars>>

\* the recursive call made with the same attemptCounter
RecurseSameAttempt ==
    /\ attemptCounter' = attemptCounter
    /\ pc' = "begin"
    /\ UNCHANGED <<headers, result>>

\* the recursive call _invokeWithRetries(method, uri, data, headers, attemptCounter + 1)
Recurse ==
    /\ attemptCounter' = attemptCounter + 1
    /\ pc' = "begin"
    /\ UNCHANGED <<headers, result>>

\* await authClient.refreshToken() returns, holding token t
RefreshToken(t) ==
    /\ pc = "refresh"
    /\ refreshCalls' = refreshCalls + 1
    /\ authToken' = t
    /\ Recurse
    /\ UNCHANGED <<options, refreshThrew, origHeaders, calls, headerResults, delays,
                   received, sent>>
    /\ UNCHANGED <<parseVars, authVars, bodyVars, funcVars>>

\* a rejected refreshToken that is ignored: the call is tried again
RefreshTokenThrowsIgnored ==
    /\ pc = "refresh"
    /\ refreshCalls' = refreshCalls + 1
    /\ refreshThrew' = TRUE
    /\ Recurse
    /\ UNCHANGED <<options, authToken, origHeaders, calls, headerResults,
                   delays, received, sent>>
    /\ UNCHANGED <<parseVars, authVars, bodyVars, funcVars>>

\* await authClient.refreshToken() rejects
RefreshTokenThrows ==
    /\ pc = "refresh"
    /\ refreshCalls' = refreshCalls + 1
    /\ refreshThrew' = TRUE
    /\ Catch("RefreshError")
    /\ UNCHANGED <<options, authToken, attemptCounter, headers, origHeaders,
                   calls, headerResults, delays, received, sent>>
    /\ UNCHANGED <<parseVars, authVars, bodyVars, funcVars>>

\* the retry timer fires
Delay ==
    /\ pc = "delay"
    /\ Recurse
    /\ UNCHANGED <<options, authToken, origHeaders, calls, headerResults,
                   refreshCalls, refreshThrew, delays, received, sent>>
    /\ UNCHANGED <<parseVars, authVars, bodyVars, funcVars>>

Next ==
    \/ \E h \in CallerHeaders : Invoke(h, JNull)
    \/ \E t \in Tokens : GetAuthHeader(t)
    \/ GetAuthHeaderThrows
    \/ SendRequest
    \/ \E s \in Statuses : ReceiveResponse(s)
    \/ RequestThrows
    \/ \E t \in Tokens : RefreshToken(t)
    \/ RefreshTokenThrows
    \/ Delay

\* a continuation of the logical call in progress
Step == pc \notin {"idle", "done"} /\ Next

Spec == Init /\ [][Next]_vars

\* Every await of a logical call completes: the auth strategy, the
\* transport and the timer all answer.
LiveSpec == Spec /\ WF_vars(Step)

\* ------------------------------------------------------------ parseResult
\* The typed variants: parseResult runs on the ApiResponse of the logical
\* call.  !response.success returns at once, otherwise the continuation
\* after "await response.response.data" follows.
ParseResult(tt) ==
    /\ pc = "done"
    /\ ppc = "idle"
    /\ transformType' = tt
    /\ IF ~Success(TheValue(result))
       THEN /\ typedResult' = Some(WrapFailed(TheValue(result)))
            /\ ppc' = "done"
            /\ UNCHANGED data
       ELSE /\ data' = Some(ResponseData(TheValue(TheValue(result).response)))
            /\ ppc' = "data"
            /\ UNCHANGED typedResult
    /\ UNCHANGED <<authVars, bodyVars, funcVars, callVars, inboundProcessors, inboundRuns>>

\* the inbound processors have run up to processor number n
RunsUpTo(n) == [i \in 1..n |-> inboundProcessors[i]]

\* the untyped return that leaves the inbound processors out
InboundReturnsSkipsProcessors ==
    /\ ppc = "data"
    /\ ~transformType
    /\ inboundRuns' = <<>>
    /\ data' = data
    /\ typedResult' = Some(WrapValue(TheValue(result), TheValue(data)))
    /\ ppc' = "done"
    /\ UNCHANGED <<authVars, bodyVars, funcVars, callVars, inboundProcessors, transformType>>

\* no transformType: every inbound processor runs, the data is the value
InboundReturns ==
    /\ ppc = "data"
    /\ ~transformType
    /\ inboundRuns' = RunsUpTo(Len(inboundProcessors))
    /\ data' = Some(RunChain(inboundProcessors, TheValue(data)))
    /\ typedResult' = Some(WrapValue(TheValue(result), TheValue(data')))
    /\ ppc' = "done"
    /\ UNCHANGED <<authVars, bodyVars, funcVars, callVars, inboundProcessors, transformType>>

\* inbound processor number n throws
InboundThrows(n) ==
    /\ ppc = "data"
    /\ n \in 1..Len(inboundProcessors)
    /\ inboundRuns' = RunsUpTo(n)
    /\ data' = Some(RunChain(RunsUpTo(n - 1), TheValue(data)))
    /\ typedResult' = Some(WrapError(TheValue(result), "ProcessorError"))
    /\ ppc' = "done"
    /\ UNCHANGED <<authVars, bodyVars, funcVars, callVars, inboundProcessors, transformType>>

\* one of the inbound processors throws
InboundThrowsSomewhere == \E n \in 1..Len(inboundProcessors) : InboundThrows(n)

\* transformType: the processors run, plainToClass returns, validateOrReject
\* is awaited
Transform ==
    /\ ppc = "data"
    /\ transformType
    /\ inboundRuns' = RunsUpTo(Len(inboundProcessors))
    /\ data' = Some(PlainToClass(RunChain(inboundProcessors, TheValue(data))))
    /\ ppc' = "validating"
    /\ UNCHANGED <<authVars, bodyVars, funcVars, callVars, inboundProcessors, transformType, typedResult>>

\* transformType: the processors run, plainToClass throws
TransformThrows ==
    /\ ppc = "data"
    /\ transformType
    /\ inboundRuns' = RunsUpTo(Len(inboundProcessors))
    /\ data' = Some(RunChain(inboundProcessors, TheValue(data)))
    /\ typedResult' = Some(WrapError(TheValue(result), "TransformError"))
    /\ ppc' = "done"
    /\ UNCHANGED <<authVars, bodyVars, funcVars, callVars, inboundProcessors, transformType>>

\* await validateOrReject(data) resolves
ValidateResolves ==
    /\ ppc = "validating"
    /\ typedResult' = Some(WrapValue(TheValue(result), TheValue(data)))
    /\ ppc' = "done"
    /\ UNCHANGED <<authVars, bodyVars, funcVars, callVars, inboundProcessors, transformType, data, inboundRuns>>

\* await validateOrReject(data) rejects
ValidateRejects ==
    /\ ppc = "validating"
    /\ typedResult' = Some(WrapError(TheValue(result), "ValidationError"))
    /\ ppc' = "done"
    /\ UNCHANGED <<authVars, bodyVars, funcVars, callVars, inboundProcessors, transformType, data, inboundRuns>>

\* A client with its inbound processors registered; the retry options do
\* not reach parseResult and keep their defaults.
TypedInit ==
    /\ maxAttempts \in 1..MaxAttemptsBound
    /\ retryDelay = DefaultRetryDelay
    /\ retryStrategy = "exponential"
    /\ authClient \in BOOLEAN
    /\ authToken = ""
    /\ pc = "idle"
    /\ attemptCounter = 0
    /\ headers = EmptyHeaders
    /\ origHeaders = EmptyHeaders
    /\ calls = 0
    /\ headerResults = <<>>
    /\ refreshCalls = 0
    /\ refreshThrew = FALSE
    /\ delays = <<>>
    /\ received = <<>>
    /\ sent = <<>>
    /\ result = Undefined
    /\ inboundProcessors \in ProcessorChains
    /\ ParseIdle
    /\ kind = "delegate"
    /\ AuthIdle
    /\ outboundProcessors = <<>>
    /\ BodyIdle
    /\ FuncIdle

TypedNext ==
    \/ \E h \in CallerHeaders : Invoke(h, JNull)
    \/ \E t \in Tokens : GetAuthHeader(t)
    \/ GetAuthHeaderThrows
    \/ SendRequest
    \/ \E s \in Statuses : ReceiveResponse(s)
    \/ RequestThrows
    \/ \E t \in Tokens : RefreshToken(t)
    \/ RefreshTokenThrows
    \/ Delay
    \/ \E tt \in BOOLEAN : ParseResult(tt)
    \/ InboundReturns
    \/ InboundThrowsSomewhere
    \/ Transform
    \/ TransformThrows
    \/ ValidateResolves
    \/ ValidateRejects

\* get/post/put/patch/delete followed by parseResult: getAs, postAs, ...
TypedSpec == TypedInit /\ [][TypedNext]_vars

\* ----------------------------------------------------------------- AuthSpec
\* One auth strategy instance of any class, shared by concurrent callers;
\* no HttpClient call is modelled around it.
AuthInit ==
    /\ maxAttempts = DefaultMaxAttempts
    /\ retryDelay = DefaultRetryDelay
    /\ retryStrategy = "exponential"
    /\ authClient = TRUE
    /\ authToken = ""
    /\ pc = "idle"
    /\ attemptCounter = 0
    /\ headers = EmptyHeaders
    /\ origHeaders = EmptyHeaders
    /\ calls = 0
    /\ headerResults = <<>>
    /\ refreshCalls = 0
    /\ refreshThrew = FALSE
    /\ delays = <<>>
    /\ received = <<>>
    /\ sent = <<>>
    /\ result = Undefined
    /\ inboundProcessors = <<>>
    /\ ParseIdle
    /\ kind \in Kinds
    /\ AuthIdle
    /\ outboundProcessors = <<>>
    /\ BodyIdle
    /\ FuncIdle

AuthNext ==
    \/ \E c \in Callers : CallGetAuthHeader(c)
    \/ \E c \in Callers : CallRefreshToken(c)
    \/ \E f \in 1..MaxFetches, ok \in BOOLEAN, tok \in Tokens : ResolverSettles(f, ok, tok)
    \/ \E f \in 1..MaxFetches, st \in TokenEndpointStatuses \cup {NoStatus}, tok \in Tokens :
          TokenEndpointAnswers(f, st, tok)
    \/ \E c \in Callers : RefreshSettles(c)
    \/ \E c \in Callers : ReadToken(c)
    \/ \E c \in Callers : TokenSettles(c)

AuthSpec == AuthInit /\ [][AuthNext]_vars

\* ----------------------------------------------------------------- BodySpec
\* A client with outbound processors registered, called with a body; the
\* retry delays do not reach the body and keep their defaults.
BodyInit ==
    /\ maxAttempts \in 1..MaxAttemptsBound
    /\ retryDelay = DefaultRetryDelay
    /\ retryStrategy = "exponential"
    /\ authClient \in BOOLEAN
    /\ authToken = ""
    /\ pc = "idle"
    /\ attemptCounter = 0
    /\ headers = EmptyHeaders
    /\ origHeaders = EmptyHeaders
    /\ calls = 0
    /\ headerResults = <<>>
    /\ refreshCalls = 0
    /\ refreshThrew = FALSE
    /\ delays = <<>>
    /\ received = <<>>
    /\ sent = <<>>
    /\ result = Undefined
    /\ inboundProcessors = <<>>
    /\ ParseIdle
    /\ kind = "delegate"
    /\ AuthIdle
    /\ outboundProcessors \in OutboundChains
    /\ BodyIdle
    /\ FuncIdle

BodyNext ==
    \/ \E d \in Bodies : Invoke(EmptyHeaders, d)
    \/ \E t \in Tokens : GetAuthHeader(t)
    \/ GetAuthHeaderThrows
    \/ SendRequest
    \/ \E s \in Statuses : ReceiveResponse(s)
    \/ RequestThrows
    \/ \E t \in Tokens : RefreshToken(t)
    \/ RefreshTokenThrows
    \/ Delay

BodySpec == BodyInit /\ [][BodyNext]_vars

\* ----------------------------------------------------------------- FuncSpec
\* The helper functions of a Response and the delay policy, applied to the
\* values the client produces.
FuncRetryDelays == {DefaultRetryDelay, 2000, 5000}

\* what an answer of the endpoint carries besides its status
StatusTexts == {"", "Not Found"}
Payloads == {"", "json", "circular"}

FullResponses ==
    [status : Statuses \ {199}, statusText : StatusTexts, data : Payloads]

SuccessResponses == {r \in FullResponses : StatusSuccess(r.status)}

Errors == {"TransportError", "AuthHeaderError", "ValidationError"}

\* the Responses _invokeWithRetries returns
ApiResponses ==
    {ApiResponse(Some(res), Undefined, n) : res \in FullResponses, n \in {1}}
        \cup {ApiResponse(Undefined, Some(e), n) : e \in Errors, n \in {1}}

\* the Results parseResult returns
ApiResults ==
    {ApiResult(v, Some(res), Undefined, 1) :
        v \in {Undefined, Some("value")}, res \in SuccessResponses}
        \cup {ApiResult(Undefined, r.response, r.error, r.attempts) :
                r \in {x \in ApiResponses : ~Success(x)}}
        \cup {ApiResult(Undefined, Some(res), Some(e), 1) :
                res \in SuccessResponses, e \in Errors}

FuncInit ==
    /\ maxAttempts = DefaultMaxAttempts
    /\ retryDelay \in FuncRetryDelays
    /\ retryStrategy \in RetryStrategies
    /\ authClient = FALSE
    /\ authToken = ""
    /\ pc = "idle"
    /\ attemptCounter = 0
    /\ headers = EmptyHeaders
    /\ origHeaders = EmptyHeaders
    /\ calls = 0
    /\ headerResults = <<>>
    /\ refreshCalls = 0
    /\ refreshThrew = FALSE
    /\ delays = <<>>
    /\ received = <<>>
    /\ sent = <<>>
    /\ result = Undefined
    /\ inboundProcessors = <<>>
    /\ ParseIdle
    /\ kind = "delegate"
    /\ AuthIdle
    /\ outboundProcessors = <<>>
    /\ BodyIdle
    /\ FuncIdle

\* this._calculateRetryDelay(a) is evaluated
ApplyCalculateRetryDelay(a) ==
    /\ fn' = "calculateRetryDelay"
    /\ arg' = a
    /\ out' = CalculateRetryDelay(a)
    /\ UNCHANGED <<callVars, parseVars, authVars, bodyVars>>

\* r.is4xx is read
ApplyIs4xx(r) ==
    /\ fn' = "is4xx"
    /\ arg' = r
    /\ out' = Is4xx(r)
    /\ UNCHANGED <<callVars, parseVars, authVars, bodyVars>>

\* r.ensureSuccess() is called
ApplyEnsureSuccess(r) ==
    /\ fn' = "ensureSuccess"
    /\ arg' = r
    /\ out' = EnsureSuccess(r)
    /\ UNCHANGED <<callVars, parseVars, authVars, bodyVars>>

\* r.getValueOrThrow() is called
ApplyGetValueOrThrow(r) ==
    /\ fn' = "getValueOrThrow"
    /\ arg' = r
    /\ out' = GetValueOrThrow(r)
    /\ UNCHANGED <<callVars, parseVars, authVars, bodyVars>>

\* the transformers a StringTransformJsonProcessor is built with
Transformers == {"isoDate", "suffix", "toNull"}

\* JSON documents: strings as object properties, in arrays, nested
JsonTrees ==
    LET iso == JString(<<IsoText>>)
        abc == JString(<<"abc">>)
        num == JNumber("7")
    IN  { JObject(<<abc>>),
          JObject(<<iso, num, JNull>>),
          JObject(<<JObject(<<iso, abc>>)>>),
          JObject(<<JArray(<<iso, abc>>)>>),
          JObject(<<JArray(<<JObject(<<iso>>), num>>)>>),
          JObject(<<JArray(<<JArray(<<iso>>)>>)>>),
          JArray(<<iso, num>>),
          JArray(<<JArray(<<iso>>), JObject(<<abc>>)>>),
          iso, num, JNull }

\* processor.processJson(json) is called
ApplyProcessJson(p, json) ==
    /\ fn' = "processJson"
    /\ arg' = [processor |-> p, json |-> json]
    /\ out' = ProcessOutbound(p, json)
    /\ UNCHANGED <<callVars, parseVars, authVars, bodyVars>>

FuncNext ==
    \/ \E a \in 1..MaxAttemptsBound : ApplyCalculateRetryDelay(a)
    \/ \E r \in ApiResponses : ApplyIs4xx(r)
    \/ \E r \in ApiResponses \cup ApiResults : ApplyEnsureSuccess(r)
    \/ \E r \in ApiResults : ApplyGetValueOrThrow(r)
    \/ \E p \in Transformers, json \in JsonTrees : ApplyProcessJson(p, json)

FuncSpec == FuncInit /\ [][FuncNext]_vars

\* ======================================================== claim vocabulary
Last(seq) == seq[Len(seq)]
Is2xx(s) == s >= 200 /\ s < 300
Is3xxOr4xx(s) == s >= 300 /\ s < 500
Is5xx(s) == s >= 500
\* the physical call rejected instead of resolving with a response
IsRejection(s) == s = NoStatus \/ ~ValidateStatus(s)
Running == pc \notin {"idle", "done"}
Returned == pc = "done" /\ IsDefined(result)
TheResult == TheValue(result)
\* refreshToken invocations of this logical call, the one in flight included
RefreshInvocations == refreshCalls + (IF pc = "refresh" THEN 1 ELSE 0)
headerCalls == Len(headerResults)
Count401 == Cardinality({i \in 1..Len(received) : received[i] = 401})

\* ------------------------------------------------------------------- C1
\* C1: one logical invoke issues at most maxAttempts physical transport
\* calls, whatever the transport and the auth strategy answer.
C1_AtMostMaxAttemptsCalls == calls <= maxAttempts

C1_Witness ==
    /\ Returned /\ maxAttempts >= 3 /\ calls = maxAttempts
    /\ ~Success(TheResult)

\* ------------------------------------------------------------------- C2
\* C2: every logical invoke eventually returns a Response, provided each
\* transport call, auth-strategy call and retry delay completes.
C2_EventuallyReturns == Running ~> Returned

C2_Witness ==
    /\ Returned /\ maxAttempts >= 3 /\ calls = maxAttempts
    /\ \A i \in 1..Len(received) : received[i] = 401 \/ Is5xx(received[i])
    /\ Len(delays) >= 1

\* ------------------------------------------------------------------- C3
\* C3: with maxAttempts = 1 the client never refreshes and never delays,
\* and once the transport has returned a status it has made exactly one
\* physical call and returns a Response with attempts = 1.
C3_SingleAttempt ==
    maxAttempts = 1 =>
        /\ pc \notin {"refresh", "delay"}
        /\ refreshCalls = 0
        /\ delays = <<>>
        /\ calls <= 1
        /\ (Len(received) >= 1 /\ ValidateStatus(received[1])) =>
              /\ Returned
              /\ calls = 1
              /\ TheResult.attempts = 1
              /\ Status(TheResult) = received[1]

C3_Witness ==
    /\ maxAttempts = 1 /\ Returned /\ authClient
    /\ received = <<401>>

\* ------------------------------------------------------------------- C4
\* C4: when the first k physical attempts return 5xx and attempt k+1
\* returns 2xx, invoke has made exactly k+1 physical calls and returns a
\* Response with success = true and attempts = k+1.
C4_SuccessAfterServerErrors ==
    (/\ Len(received) >= 1
     /\ Is2xx(Last(received))
     /\ \A i \in 1..(Len(received) - 1) : Is5xx(received[i]))
    => /\ Returned
       /\ calls = Len(received)
       /\ Success(TheResult)
       /\ TheResult.attempts = Len(received)
       /\ Status(TheResult) = Last(received)
       /\ Len(received) <= maxAttempts

C4_Witness ==
    /\ Returned /\ maxAttempts = MaxAttemptsBound
    /\ Len(received) = maxAttempts
    /\ Is2xx(Last(received))
    /\ \A i \in 1..(Len(received) - 1) : Is5xx(received[i])

C6_ClientErrorIsTerminal ==
    (/\ Len(received) >= 1
     /\ Is3xxOr4xx(Last(received))
     /\ Last(received) # 401)
    => /\ Returned
       /\ calls = Len(received)
       /\ Len(delays) + refreshCalls = Len(received) - 1
       /\ ~Success(TheResult)
       /\ Status(TheResult) = Last(received)
       /\ TheResult.error = Undefined
       /\ TheResult.attempts = Last(sent).attempt
       /\ TheResult.attempts = Len(received)
       /\ NotFound(TheResult) <=> (Last(received) = 404)
       /\ Forbidden(TheResult) <=> (Last(received) = 403)

C6_Witness ==
    /\ Returned /\ maxAttempts >= 3
    /\ Len(received) = 2
    /\ Last(received) = 404
    /\ NotFound(TheResult)

C10_TransportErrorIsTerminal ==
    (Len(received) >= 1 /\ IsRejection(Last(received)))
    => /\ Returned
       /\ calls = Len(received)
       /\ Len(delays) + refreshCalls = Len(received) - 1
       /\ TheResult.response = Undefined
       /\ Status(TheResult) = NoStatus
       /\ TheResult.error =
             Some(IF Last(received) = NoStatus THEN "TransportError" ELSE "StatusRejected")
       /\ ~Success(TheResult)
       /\ TheResult.attempts = Last(sent).attempt
       /\ TheResult.attempts = Len(received)

C10_Witness ==
    /\ Returned /\ maxAttempts >= 3
    /\ Len(received) = 2
    /\ Last(received) = NoStatus
    /\ TheResult.attempts = 2

\* ------------------------------------------------------------------ C11
\* C11: when getAuthHeader throws at the start of an attempt, invoke
\* returns a failed Response whose error is the thrown error; no physical
\* call is issued for that attempt and nothing follows it (no delay, no
\* refresh, no further getAuthHeader call).
C11_AuthHeaderFailureIsTerminal ==
    (headerCalls >= 1 /\ Last(headerResults).threw)
    => /\ Returned
       /\ TheResult = ApiResponse(Undefined, Some("AuthHeaderError"), attemptCounter)
       /\ ~Success(TheResult)
       /\ Status(TheResult) = NoStatus
       /\ headerCalls = attemptCounter
       /\ calls = attemptCounter - 1
       /\ Len(received) = calls
       /\ Len(delays) + refreshCalls = attemptCounter - 1
       /\ \A i \in 1..(headerCalls - 1) : ~headerResults[i].threw

C11_Witness ==
    /\ Returned /\ headerCalls = 3 /\ Last(headerResults).threw
    /\ calls = 2 /\ Len(delays) = 1 /\ refreshCalls = 1

\* ------------------------------------------------------------------ C12
\* C12: when refreshToken throws on the 401-on-attempt-1 path, invoke
\* returns a failed Response whose error is the refresh error, and no second
\* physical call is made.
C12_RefreshFailureIsTerminal ==
    refreshThrew
    => /\ Returned
       /\ TheResult.error = Some("RefreshError")
       /\ ~Success(TheResult)
       /\ calls = 1
       /\ received = <<401>>
       /\ refreshCalls = 1
       /\ headerCalls = 1
       /\ delays = <<>>

C12_Witness ==
    /\ refreshThrew /\ Returned /\ maxAttempts >= 2
    /\ sent[1].headers = [Authorization |-> "Bearer tokA"]

ParseReturned == ppc = "done" /\ IsDefined(typedResult)
TheTypedResult == TheValue(typedResult)

C14_NeverRejects ==
    /\ pc \in {"idle", "begin", "send", "awaiting", "refresh", "delay", "done"}
    /\ ppc \in {"idle", "data", "validating", "done"}
    /\ pc = "done" => IsDefined(result)
    /\ ppc = "done" => IsDefined(typedResult)
    /\ \/ headerCalls >= 1 /\ Last(headerResults).threw
       \/ refreshThrew
       \/ Len(received) >= 1 /\ IsRejection(Last(received))
       => Returned /\ IsDefined(TheResult.error)
    /\ ParseReturned /\ Success(TheResult) /\ ~Success(TheTypedResult)
       => IsDefined(TheTypedResult.error)

C14_Witness ==
    /\ ParseReturned
    /\ TheTypedResult.error = Some("ValidationError")
    /\ TheTypedResult.attempts = 2

\* ------------------------------------------------------------------ C20
\* C20: in every ApiResult of parseResult, value is set only when success
\* is true, and then it is the processed payload of the response; whenever
\* success is false (failed transport response or failed inbound
\* transformation / validation) value is absent.
ProcessedPayload ==
    LET json == RunChain(inboundProcessors, ResponseData(TheValue(TheResult.response)))
    IN  IF transformType THEN PlainToClass(json) ELSE json

C20_ValueOnlyOnSuccess ==
    ParseReturned =>
        /\ ~Success(TheTypedResult) => TheTypedResult.value = Undefined
        /\ IsDefined(TheTypedResult.value) =>
              /\ Success(TheTypedResult)
              /\ Success(TheResult)
              /\ TheTypedResult.value = Some(ProcessedPayload)

C20_Witness ==
    /\ ParseReturned
    /\ Status(TheTypedResult) = 404
    /\ TheTypedResult.value = Undefined
    /\ Len(inboundProcessors) = 2

\* ------------------------------------------------- auth strategy vocabulary
\* the caller c is inside a getAuthHeader call
InGetAuthHeader(c) == cpc[c] \in {"awaitRefresh", "readToken", "awaitToken"}

\* this step is the caller c calling getAuthHeader
GetAuthHeaderCalled(c) == Resting(c) /\ cpc'[c] \in {"awaitRefresh", "awaitToken"}

\* the token fetches that have not settled
InFlight == {f \in 1..Len(fetches) : fetches[f].state = "pending"}

\* the failure of fetch f has been raised to a caller
FailureRaised(f) == \E c \in Callers : outcome[c].result = "error" /\ outcome[c].fetch = f

\* C15: on an instance with no cached token, getAuthHeader calls that
\* overlap before the fetch completes trigger exactly one token fetch: as
\* long as nothing has settled and nobody called refreshToken there is one
\* fetch and every caller waits for it, and a getAuthHeader call starts a
\* fetch exactly when no promise is cached.
C15_FirstCallsShareOneFetch ==
    (\A f \in 1..Len(fetches) : fetches[f].state = "pending" /\ fetches[f].by = "getAuthHeader")
        => /\ Len(fetches) <= 1
           /\ \A c \in Callers : InGetAuthHeader(c) =>
                 Len(fetches) = 1 /\ joined[c] = 1 /\ waitOn[c] = 1

C15_CallFetchesOnlyWithoutToken ==
    \A c \in Callers : GetAuthHeaderCalled(c) =>
        IF token = 0
        THEN Len(fetches') = Len(fetches) + 1 /\ joined'[c] = Len(fetches')
        ELSE fetches' = fetches /\ joined'[c] = token

C15_OneFetchForOverlappingCalls ==
    []C15_FirstCallsShareOneFetch /\ [][C15_CallFetchesOnlyWithoutToken]_vars

\* all three callers overlap on the one fetch of an OAuthClient
C15_Witness ==
    /\ kind = "oauth"
    /\ Len(fetches) = 1
    /\ fetches[1].state = "pending"
    /\ \A c \in Callers : InGetAuthHeader(c) /\ joined[c] = 1

\* C16: per auth strategy instance at most one token fetch is in flight at
\* any time, whatever the interleaving of getAuthHeader and refreshToken.
C16_AtMostOneFetchInFlight == Cardinality(InFlight) <= 1

\* C17: every getAuthHeader caller that was coalesced onto a token fetch
\* (it started the fetch or found its promise cached) ends with the outcome
\* of that fetch: the header of its token, or its error.
C17_CoalescedCallersShareOutcome ==
    \A c \in Callers :
        (cpc[c] \in {"returned", "threw"} /\ outcome[c].call = "getAuthHeader")
            => /\ outcome[c].fetch = joined[c]
               /\ (fetches[joined[c]].state = "rejected") = (outcome[c].result = "error")
               /\ outcome[c].token = fetches[joined[c]].value

\* C18: in DelegateBearerAuthClient, once a token fetch has failed and its
\* error has been raised, the very next getAuthHeader call starts a new
\* fetch instead of awaiting the failed promise.
C18_NextCallRefetchesAfterFailure ==
    [][\A c \in Callers :
          (/\ kind # "oauth"
           /\ GetAuthHeaderCalled(c)
           /\ token # 0
           /\ fetches[token].state = "rejected"
           /\ FailureRaised(token))
             => Len(fetches') = Len(fetches) + 1]_vars

\* C19: in OAuthClient, after a token fetch has failed and its error has
\* been raised to a caller, the failed promise is no longer cached.
C19_FailedFetchIsNotCached ==
    kind = "oauth" =>
        \A c \in Callers :
            ~(cpc[c] = "threw" /\ token # 0 /\ outcome[c].fetch = token)

\* ------------------------------------------------------------------- C21
\* C21: when an inbound processor, the type transformation or the
\* validation fails after a 2xx exchange, the typed result is not a success,
\* its error is the error of the step that failed, it has no value, and it
\* still carries the 2xx response and the attempts of the call.
TypedFailures == {"ProcessorError", "TransformError", "ValidationError"}

C21_TransformFailureKeepsResponse ==
    (ParseReturned /\ Success(TheResult)) =>
        /\ TheTypedResult.response = TheResult.response
        /\ TheTypedResult.attempts = TheResult.attempts
        /\ Is2xx(Status(TheTypedResult))
        /\ Success(TheTypedResult) = IsDefined(TheTypedResult.value)
        /\ ~Success(TheTypedResult) =>
              /\ IsDefined(TheTypedResult.error)
              /\ TheValue(TheTypedResult.error) \in TypedFailures
              /\ TheValue(TheTypedResult.error) = "ProcessorError" => inboundRuns # <<>>
              /\ TheValue(TheTypedResult.error) = "TransformError"
                    => transformType /\ inboundRuns = inboundProcessors
              /\ TheValue(TheTypedResult.error) = "ValidationError"
                    => transformType /\ inboundRuns = inboundProcessors
        /\ (inboundRuns # inboundProcessors) =>
              (~Success(TheTypedResult) /\ TheTypedResult.error = Some("ProcessorError"))

\* the validation rejects after a retried call ended with a 2xx
C21_Witness ==
    /\ ParseReturned
    /\ Success(TheResult)
    /\ TheResult.attempts >= 2
    /\ TheTypedResult.error = Some("ValidationError")
    /\ ~Success(TheTypedResult)
    /\ TheTypedResult.response = TheResult.response

\* ------------------------------------------------------------------- C25
\* C25: every Response returned by invoke has exactly one of the HTTP
\* response (with a status) and the captured error: one built from a
\* transport reply has no error, one built from a caught exception has no
\* response and so no status.
C25_ExactlyOneOfResponseAndError ==
    Returned =>
        /\ IsDefined(TheResult.response) # IsDefined(TheResult.error)
        /\ IsDefined(TheResult.response) =>
              /\ Status(TheResult) = Last(received)
              /\ Status(TheResult) # NoStatus
              /\ ValidateStatus(Status(TheResult))
        /\ IsDefined(TheResult.error) =>
              /\ Status(TheResult) = NoStatus
              /\ \/ received # <<>> /\ IsRejection(Last(received))
                 \/ Last(headerResults).threw
                 \/ refreshThrew

\* both kinds of Response are returned after a retry
C25_Witness ==
    /\ Returned
    /\ TheResult.attempts >= 2
    /\ IsDefined(TheResult.error)
    /\ ~IsDefined(TheResult.response)
    /\ received # <<>> /\ Last(received) = NoStatus

\* ------------------------------------------------------------------- C26
\* the delay policy as the documentation of RetryStrategy states it
DelayPolicy(a, base) ==
    CASE retryStrategy = "constant" -> base
      [] retryStrategy = "linear" -> base * a
      [] retryStrategy = "exponential" -> base * a ^ 2

\* attempt a ended with a status that is retried after a suspension
BacksOff(a) ==
    /\ a \in 1..Len(received)
    /\ a < maxAttempts
    /\ \/ Is5xx(received[a])
       \/ received[a] = 401 /\ (a > 1 \/ ~authClient)

\* the suspensions a call that has received n answers went through
RECURSIVE SuspensionsUpTo(_)
SuspensionsUpTo(n) ==
    IF n = 0 THEN <<>>
    ELSE IF BacksOff(n)
         THEN Append(SuspensionsUpTo(n - 1), DelayPolicy(n, retryDelay))
         ELSE SuspensionsUpTo(n - 1)

\* C26: within one logical call the suspensions are exactly those of the
\* attempts that ended with a 5xx, or with a 401 on the backoff path, before
\* the last allowed attempt, each of delayPolicy(a, baseDelay); attempt a+1
\* is issued only after the suspension of attempt a; nothing is suspended
\* before the first attempt, on the 401-refresh path or after the terminal
\* attempt.
C26_SuspensionsFollowThePolicy ==
    /\ delays = SuspensionsUpTo(Len(received))
    /\ pc = "delay" =>
          /\ BacksOff(attemptCounter)
          /\ Len(sent) = attemptCounter
          /\ Last(delays) = DelayPolicy(attemptCounter, retryDelay)
    /\ pc = "refresh" =>
          /\ ~BacksOff(attemptCounter)
          /\ delays = <<>>
    /\ \A i \in 2..Len(sent) :
          \/ BacksOff(i - 1)
          \/ i = 2 /\ received[1] = 401 /\ authClient /\ refreshCalls = 1
    /\ Len(received) = 0 => delays = <<>>
    /\ Returned => ~BacksOff(TheResult.attempts)

\* a 401 refreshed at attempt 1, a 401 and a 503 backed off at attempts 2, 3
C26_Witness ==
    /\ Returned
    /\ authClient
    /\ retryStrategy = "linear"
    /\ received = <<401, 401, 503, 200>>
    /\ delays = <<2 * retryDelay, 3 * retryDelay>>

C28_HeadersRebuiltFromOriginal ==
    \A i \in 1..Len(sent) :
        sent[i].headers =
            IF authClient
            THEN MergeHeaders(origHeaders, headerResults[i].header)
            ELSE origHeaders

\* ------------------------------------------------------------------- C29
\* the outbound processors applied in registration order, as a pipeline
RECURSIVE Pipeline(_, _)
Pipeline(chain, json) ==
    IF chain = <<>> THEN json
    ELSE Pipeline(Tail(chain), ProcessOutbound(Head(chain), json))

\* C29: the body sent on every retry attempt is identical to the body sent
\* on the first attempt, for every registered outbound processor chain.
C29_SameBodyOnEveryAttempt ==
    \A i \in 1..Len(sent) : sent[i].data = sent[1].data

\* ------------------------------------------------------------------- C30
\* C30: for every non-null body the data of every request is the outbound
\* pipeline applied to the body (the body itself without processors); only
\* a null body is sent as null.
C30_NonNullBodyIsProcessed ==
    \A i \in 1..Len(sent) :
        sent[i].data =
            IF origBody = JNull THEN JNull ELSE Pipeline(outboundProcessors, origBody)

\* ------------------------------------------------------------------- C22
\* C22: getValueOrThrow returns the value exactly when the result is a
\* success and raises otherwise, and so does ensureSuccess; the error raised
\* is the captured error when there is one, otherwise a new error built from
\* the status text ("n/a" without one), the status and the serialized body.
C22_RaisedError ==
    IF IsDefined(arg.error)
    THEN out.error.captured /\ out.error.error = TheValue(arg.error)
    ELSE /\ ~out.error.captured
         /\ out.error.error = "Error"
         /\ out.error.message.status = TheValue(arg.response).status
         /\ out.error.message.statusText \in {TheValue(arg.response).statusText, "n/a"}
         /\ out.error.message.statusText # ""
         /\ out.error.message.data \in {"", " - " \o TheValue(arg.response).data}
         /\ TheValue(arg.response).data = "json" => out.error.message.data = " - json"

C22_ValueOrRaise ==
    /\ fn = "getValueOrThrow" =>
          /\ out.threw = ~(Is2xx(Status(arg)) /\ ~IsDefined(arg.error))
          /\ ~out.threw => out.value = arg.value
          /\ out.threw => C22_RaisedError
    /\ fn = "ensureSuccess" =>
          /\ out.threw = ~(Is2xx(Status(arg)) /\ ~IsDefined(arg.error))
          /\ out.threw => C22_RaisedError

\* a 404 without a captured error raises the error built from the response
C22_Witness ==
    /\ fn = "getValueOrThrow"
    /\ Status(arg) = 404
    /\ out.threw
    /\ out.error.message = Message(FALSE, "", "Not Found", 404, " - json")

\* ------------------------------------------------------------------- C23
\* C23: the retry delay is base for Constant, base * attempt for Linear and
\* base * attempt^2 for Exponential, at every attempt >= 1: Constant(5000)
\* gives 5000 throughout, Linear(2000) gives 2000, 4000, 6000 and
\* Exponential(1000) gives 1000, 4000, 9000 at attempts 1, 2, 3.
C23_DelayPolicy ==
    fn = "calculateRetryDelay" =>
        /\ out = DelayPolicy(arg, retryDelay)
        /\ (retryStrategy = "constant" /\ retryDelay = 5000) => out = 5000
        /\ (retryStrategy = "linear" /\ retryDelay = 2000 /\ arg <= 3)
              => out = <<2000, 4000, 6000>>[arg]
        /\ (retryStrategy = "exponential" /\ retryDelay = 1000 /\ arg <= 3)
              => out = <<1000, 4000, 9000>>[arg]

C23_Witness ==
    /\ fn = "calculateRetryDelay"
    /\ retryStrategy = "exponential" /\ retryDelay = 1000
    /\ arg = 3 /\ out = 9000

\* ------------------------------------------------------------------- C24
\* C24 as stated: is4xx is true exactly for a status in the open interval
\* (400,500) other than 401.
C24_Original ==
    fn = "is4xx" => out = (Status(arg) > 400 /\ Status(arg) < 500 /\ Status(arg) # 401)

\* C24: is4xx is true exactly for a status from 400 up to 499 other than
\* 401, and false when no status was obtained.
C24_ClientErrorFrom400 ==
    fn = "is4xx" =>
        /\ out = (Status(arg) >= 400 /\ Status(arg) <= 499 /\ Status(arg) # 401)
        /\ ~IsDefined(arg.response) => ~out

\* a 400 is a client error
C24_Witness ==
    /\ fn = "is4xx"
    /\ Status(arg) = 400
    /\ out

\* ------------------------------------------------------------------- C31
\* the inbound processors applied in registration order, as a pipeline
RECURSIVE InboundPipeline(_, _)
InboundPipeline(chain, json) ==
    IF chain = <<>> THEN json
    ELSE InboundPipeline(Tail(chain), ProcessJson(Head(chain), json))

\* s is the start of the sequence t
IsPrefix(s, t) == Len(s) <= Len(t) /\ s = SubSeq(t, 1, Len(s))

\* C31: the inbound processors run in registration order, each at most
\* once per typed call and all of them exactly once when the typed call
\* succeeds, on the body of the final successful response; none runs while
\* the call is still retrying, nor on a failed Response.
C31_InboundRunOnceOnFinalSuccess ==
    /\ IsPrefix(inboundRuns, inboundProcessors)
    /\ pc # "done" => inboundRuns = <<>>
    /\ (pc = "done" /\ ~Success(TheResult)) => inboundRuns = <<>>
    /\ (ParseReturned /\ ~Success(TheResult)) =>
          /\ data = Undefined
          /\ TheTypedResult.value = Undefined
    /\ (ParseReturned /\ Success(TheTypedResult)) =>
          /\ inboundRuns = inboundProcessors
          /\ TheValue(TheTypedResult.response).status = Last(received)
          /\ TheTypedResult.value =
                Some(LET json == InboundPipeline(inboundProcessors, [body |-> Last(received)])
                     IN IF transformType THEN PlainToClass(json) ELSE json)

\* two processors ran once, in order, on the 200 that followed a 503
C31_Witness ==
    /\ ParseReturned
    /\ Success(TheTypedResult)
    /\ received = <<503, 200>>
    /\ inboundProcessors = <<"custom", "isoDate">>
    /\ inboundRuns = <<"custom", "isoDate">>
    /\ TheTypedResult.value =
          Some([by |-> "isoDate", of |-> [by |-> "custom", of |-> [body |-> 200]]])

\* ------------------------------------------------------------------- C32
\* the tree with every string leaf submitted to the transformer
RECURSIVE EveryStringLeaf(_, _)
EveryStringLeaf(p, json) ==
    IF json.type = "string" THEN TransformerFunc(p, json)
    ELSE [json EXCEPT !.fields =
            [i \in 1..Len(json.fields) |-> EveryStringLeaf(p, json.fields[i])]]

\* C32: a string-transform processor submits every string leaf of an
\* object or array to the transformer, wherever it occurs (object property,
\* element of an array at any depth), replaces it by every result other
\* than undefined and alters nothing else.
C32_EveryStringLeafTransformed ==
    (fn = "processJson" /\ arg.json.type \in {"object", "array"}) =>
        out = EveryStringLeaf(arg.processor, arg.json)

\* ------------------------------------------------------------------- C33
\* C33: in DelegateBearerAuthClient a getAuthHeader call that observes the
\* failure of the fetch it awaited never discards the credential of another
\* fetch: when the cached promise is that of a newer fetch, the cleanup
\* leaves it cached.
C33_CleanupKeepsNewerFetch ==
    [][\A c \in Callers :
          (/\ kind = "delegate"
           /\ cpc[c] = "awaitToken"
           /\ cpc'[c] = "threw"
           /\ token # waitOn[c])
             => token' = token]_vars

\* ------------------------------------------------------------------- C34
\* C34: when refreshToken fails after the 401 on attempt 1, the returned
\* Response does not report the 401: it holds no HTTP response, so the status
\* accessor is -1 and forbidden and notFound are not true; its error is the
\* refresh error and its attemptCount is 1.
C34_RefreshFailureHidesThe401 ==
    (Returned /\ refreshThrew)
    => /\ received = <<401>>
       /\ TheResult.response = Undefined
       /\ Status(TheResult) = NoStatus
       /\ ~Forbidden(TheResult)
       /\ ~NotFound(TheResult)
       /\ TheResult.error = Some("RefreshError")
       /\ TheResult.attempts = 1

C34_Witness ==
    /\ Returned /\ refreshThrew
    /\ Last(received) = 401
    /\ Status(TheResult) = NoStatus
    /\ TheResult.attempts = 1

====
